---- MODULE Spec2Model ----
(***************************************************************************)
(* wiredtiger-pr-bot: a GitHub App that reacts to pull_request webhooks.   *)
(* Three rules subscribe to the events: the PR title check                 *)
(* (prTitleValidation), the external contributor check                     *)
(* (externalContributorChecks) and the developer assignment                *)
(* (assignDevelopers).  Each handler is an async function; a handler runs  *)
(* to its next await on an external call, where other handlers and other   *)
(* deliveries may run.  Strings the code inspects character by character   *)
(* (titles, branch labels) are sequences of UTF-16 code units.             *)
(***************************************************************************)
EXTENDS Integers, Sequences, FiniteSets, TLC

VARIABLES env, inbox, titleRule, extRule, assignRule, uncaught, banner, notifier

vars == <<env, inbox, titleRule, extRule, assignRule, uncaught, banner, notifier>>

\* ------------------------------------------------------------------ bounds
\* Titles are concatenations of at most MaxFrags fragments.
MaxFrags == 4
\* Webhook deliveries handled in one run of the external contributor rule.
MaxDeliveries == 2
\* Webhook deliveries handled in one run of the title rule.
MaxTitleDeliveries == 1

\* ----------------------------------------------------------------- strings
Undefined == "undefined"

sRevert == <<82, 101, 118, 101, 114, 116>>
sTicket == <<87, 84, 45>>
sDigit == <<49>>
sSpace == <<32>>
sLetter == <<120>>
sEAcute == <<233>>
sColon == <<58>>
sOwner == <<111>>
sMain == <<109>>
sBackport == <<98>>

Fragments == {sRevert, sTicket, sDigit, sSpace, sLetter, sEAcute}

RECURSIVE Flatten(_)
Flatten(fs) ==
    IF fs = <<>> THEN <<>> ELSE Head(fs) \o Flatten(Tail(fs))

\* Every title made of at most MaxFrags fragments.
Titles ==
    { Flatten(fs) : fs \in UNION { [1..k -> Fragments] : k \in 0..MaxFrags } }

\* "WT-1 x", "x x" and "Revert e-acute": the titles of the handler runs.
HandlerTitles ==
    { sTicket \o sDigit \o sSpace \o sLetter,
      sLetter \o sSpace \o sLetter,
      sRevert \o sSpace \o sEAcute }

\* Values of process.env['DRY_RUN']: unset, 'true', 'false'.
DryRunValues == {Undefined, "true", "false"}

Shas == {"sha1", "sha2"}
Refs == {sMain, sBackport}
Orgs == {Undefined, "wiredtiger"}
PrNumbers == {1, 2}

\* ---------------------------------------------------------------- payloads
\* A pull_request webhook payload (PullRequestEvent), the fields the rules read.
MkPayload(action, number, sha, ref, org, title, changesTitle) ==
    [ action |-> action,
      number |-> number,
      head_sha |-> sha,
      base_ref |-> ref,
      base_label |-> sOwner \o sColon \o ref,
      default_branch |-> sMain,
      user |-> "submitter",
      org |-> org,
      title |-> title,
      changes_title |-> changesTitle ]

\* ------------------------------------------------------- outbound effects
ChecksCreate(name, sha, conclusion) ==
    [ api |-> "checks.create", name |-> name, head_sha |-> sha,
      conclusion |-> conclusion ]

CreateComment(number, body) ==
    [ api |-> "issues.createComment", issue_number |-> number, body |-> body ]

CheckMembershipForUser(org, user) ==
    [ api |-> "orgs.checkMembershipForUser", org |-> org, username |-> user ]

SlackPost(webhook, color) ==
    [ api |-> "fetch", webhook |-> webhook, color |-> color ]

ConsoleLog(what, detail) ==
    [ api |-> "console.log", what |-> what, detail |-> detail ]

\* ------------------------------------------------------------ common.ts
IsDigit(c) == c >= 48 /\ c <= 57

\* str.startsWith(prefix)
startsWith(str, prefix) ==
    /\ Len(str) >= Len(prefix)
    /\ SubSeq(str, 1, Len(prefix)) = prefix

\* str.split(sep) for a one-character separator: the parts between separators.
RECURSIVE split(_, _)
split(str, sep) ==
    IF \E i \in 1..Len(str) : str[i] = sep
    THEN LET i == CHOOSE k \in 1..Len(str) :
                      str[k] = sep /\ \A j \in 1..(k - 1) : str[j] # sep
         IN <<SubSeq(str, 1, i - 1)>> \o split(SubSeq(str, i + 1, Len(str)), sep)
    ELSE <<str>>

\* prTitleRegex.test(title), prTitleRegex = /(?<wtTicket>WT-[0-9]+) .*/ : the
\* pattern has no ^, so the match may start at any index i; [0-9]+ covers
\* i+3..j, the space is at j+1, and .* matches the (possibly empty) rest.
prTitleRegexTest(title) ==
    \E i \in 1..Len(title) : \E j \in (i + 3)..(Len(title) - 1) :
        /\ SubSeq(title, i, i + 2) = sTicket
        /\ \A k \in (i + 3)..j : IsDigit(title[k])
        /\ title[j + 1] = sSpace[1]

prTitleRegexString == "WT-[0-9]+ .*"

\* split(':')[1] is undefined when the label has no colon; undefined !== defaultBranch.
verifyTargetIsDefaultBranch(payload) ==
    LET parts == split(payload.base_label, sColon[1])
    IN IF Len(parts) >= 2 THEN parts[2] = payload.default_branch ELSE FALSE

\* ---------------------------------------------------- prTitleValidation.ts
prTitleCheckName ==
    "PR title is an ASCII string. Non-revert PRs begin with a WT ticket: 'WT-[0-9]+ .*'"

\* isAscii with the bound of Latin-1 in place of ASCII.
isAscii_Latin1(str) ==
    \A i \in 1..Len(str) : ~(str[i] < 0 \/ str[i] > 255)

isAscii(str) ==
    \A i \in 1..Len(str) : ~(str[i] < 0 \/ str[i] > 127)

\* runPrTitleCheck without the exception for revert titles.
runPrTitleCheck_NoRevert(e, payload, headSha) ==
    LET prTitle == payload.title
        validRegex == prTitleRegexTest(prTitle)
        conclusion == IF validRegex /\ isAscii(prTitle) THEN "success" ELSE "failure"
    IN IF e = "true"
       THEN <<ConsoleLog("Dry run: Reporting pr_title check result", conclusion)>>
       ELSE <<ChecksCreate(prTitleCheckName, headSha, conclusion)>>

\* The outbound effects of runPrTitleCheck: the check-creation call, or under
\* DRY_RUN === 'true' the console line that reports the conclusion.
runPrTitleCheck(e, payload, headSha) ==
    LET prTitle == payload.title
        validRegex == IF startsWith(prTitle, sRevert) THEN TRUE
                      ELSE prTitleRegexTest(prTitle)
        conclusion == IF validRegex /\ isAscii(prTitle) THEN "success" ELSE "failure"
    IN IF e = "true"
       THEN <<ConsoleLog("Dry run: Reporting pr_title check result", conclusion)>>
       ELSE <<ChecksCreate(prTitleCheckName, headSha, conclusion)>>

prTitleOpened(e, payload) ==
    IF ~verifyTargetIsDefaultBranch(payload) THEN <<>>
    ELSE runPrTitleCheck(e, payload, payload.head_sha)

\* The edited handler without the test of payload.changes.title.
prTitleEdited_AnyChange(e, payload) ==
    IF ~verifyTargetIsDefaultBranch(payload) THEN <<>>
    ELSE runPrTitleCheck(e, payload, payload.head_sha)

prTitleEdited(e, payload) ==
    IF ~verifyTargetIsDefaultBranch(payload) THEN <<>>
    ELSE IF payload.changes_title THEN runPrTitleCheck(e, payload, payload.head_sha)
    ELSE <<>>

prTitleSynchronize(e, payload) ==
    runPrTitleCheck(e, payload, payload.head_sha)

\* The three handlers registerPrTitleCheckHooks subscribes, by event.
registerPrTitleCheckHooks(e, payload) ==
    CASE payload.action = "opened" -> prTitleOpened(e, payload)
      [] payload.action = "edited" -> prTitleEdited(e, payload)
      [] payload.action = "synchronize" -> prTitleSynchronize(e, payload)

\* ----------------------------------------------------------- notifySlack.ts
sendSlackMessage_Truthy(e, color, slackWebhook) ==
    IF e \notin {Undefined, ""}
    THEN <<ConsoleLog("Dry run: Sending slack message", slackWebhook)>>
    ELSE <<SlackPost(slackWebhook, color)>>

\* sendSlackMessage: the POST to the webhook, or under DRY_RUN === 'true' the
\* console line.
sendSlackMessage(e, color, slackWebhook) ==
    IF e = "true"
    THEN <<ConsoleLog("Dry run: Sending slack message", slackWebhook)>>
    ELSE <<SlackPost(slackWebhook, color)>>

slackMessageNotification(e) == sendSlackMessage(e, "#2589CF", "SLACK_WEBHOOK_NOTIFY")

slackMessageError(e) == sendSlackMessage(e, "#9A2925", "SLACK_WEBHOOK_DEBUG")

slackMessageWarning_Notify(e) == sendSlackMessage(e, "#DEB109", "SLACK_WEBHOOK_NOTIFY")

slackMessageWarning(e) == sendSlackMessage(e, "#DEB109", "SLACK_WEBHOOK_DEBUG")

\* -------------------------------------------------------- webhookLogging.ts
reportWebhookError(e) == slackMessageError(e)

\* ---------------------------------------------- externalContributorChecks.ts
externalContributorCheckName == "External user. Please check contributors agreement"

\* What checkMembershipForUser can settle with: the request resolves (a 2xx
\* status) or rejects (octokit's RequestError, for 304 and for 4xx and 5xx);
\* .then and .catch both read the status of what they get.
MembershipResponses ==
    { [settled |-> "resolved", status |-> 204],
      [settled |-> "resolved", status |-> 200],
      [settled |-> "rejected", status |-> 404],
      [settled |-> "rejected", status |-> 500] }

\* userIsOrgMember with the warning sent when the status differs from 204 or
\* from 404.
userIsOrgMember_WarnEither(e, response) ==
    LET inWtOrgStatus == response.status
    IN [ member |-> inWtOrgStatus = 204,
         out |-> IF inWtOrgStatus # 204 \/ inWtOrgStatus # 404
                 THEN slackMessageWarning(e) ELSE <<>> ]

\* userIsOrgMember after the query has settled: the value it returns and the
\* effects it has.
userIsOrgMember(e, response) ==
    LET inWtOrgStatus == response.status
    IN [ member |-> inWtOrgStatus = 204,
         out |-> IF inWtOrgStatus # 204 /\ inWtOrgStatus # 404
                 THEN slackMessageWarning(e) ELSE <<>> ]

\* externalContributorWelcomeMessage up to its await.
externalContributorWelcomeMessage(e, payload) ==
    IF e = "true"
    THEN <<ConsoleLog("Dry run: posting comment", "welcome")>>
    ELSE <<CreateComment(payload.number, "welcome")>>

\* createContributorsAgreementReminder with a passing conclusion.
createContributorsAgreementReminder_Pass(e, payload) ==
    IF e = "true"
    THEN <<ConsoleLog("Dry run: Adding 'please check contributors agreement' reminder", "")>>
    ELSE <<ChecksCreate(externalContributorCheckName, payload.head_sha, "success")>>

createContributorsAgreementReminder(e, payload) ==
    IF e = "true"
    THEN <<ConsoleLog("Dry run: Adding 'please check contributors agreement' reminder", "")>>
    ELSE <<ChecksCreate(externalContributorCheckName, payload.head_sha, "neutral")>>

notifySlackOfNewPr(e, payload) == slackMessageNotification(e)

\* The opened handler from its start to the membership query, or to its return
\* when the payload has no organization.
externalContributorOpenedStart(e, payload) ==
    IF payload.org = Undefined
    THEN [pc |-> "done", out |-> slackMessageWarning(e)]
    ELSE [pc |-> "awaitMembership",
          out |-> <<CheckMembershipForUser(payload.org, payload.user)>>]

\* The synchronize handler from its start to the membership query.
externalContributorSynchronizeStart(e, payload) ==
    LET org == IF payload.org = Undefined THEN "Can't find org!" ELSE payload.org
    IN [pc |-> "awaitMembership",
        out |-> <<CheckMembershipForUser(org, payload.user)>>]

\* The opened handler once the author is known not to be a member, up to the
\* await of createComment (outside dry-run) or to its end (dry-run).
externalContributorOpenedNonMember(e, payload) ==
    IF e = "true"
    THEN [pc |-> "done",
          out |-> externalContributorWelcomeMessage(e, payload)
                  \o createContributorsAgreementReminder(e, payload)
                  \o notifySlackOfNewPr(e, payload)]
    ELSE [pc |-> "awaitComment",
          out |-> externalContributorWelcomeMessage(e, payload)]

\* The synchronize handler with the body of the opened handler.
externalContributorSynchronizeNonMember_AsOpened(e, payload) ==
    externalContributorOpenedNonMember(e, payload)

\* The synchronize handler once the author is known not to be a member.
externalContributorSynchronizeNonMember(e, payload) ==
    [pc |-> "done", out |-> createContributorsAgreementReminder(e, payload)]

\* The opened handler after createComment, without the team notification.
externalContributorOpenedCommented_NoNotify(e, payload) ==
    createContributorsAgreementReminder(e, payload)

\* The opened handler after createComment has succeeded.
externalContributorOpenedCommented(e, payload) ==
    createContributorsAgreementReminder(e, payload) \o notifySlackOfNewPr(e, payload)

\* ---------------------------------------------------- assignDevelopers.ts
\* Components of a Jira ticket and the users of sme_groups.json.
Components == {"Cache and eviction", "Logging", "Storage", "Unknown"}

\* Most components a Jira ticket lists.
MaxComponents == 2

\* The parsed SME_GROUPS_FILE: "Unknown" has no entry.  "Storage" and
\* "Logging" share carol; "Cache and eviction" and "Logging" share bob.
smeGroupsJson ==
    [ c \in {"Cache and eviction", "Logging", "Storage"} |->
        CASE c = "Cache and eviction" -> <<"alice", "bob">>
          [] c = "Logging" -> <<"bob", "carol">>
          [] OTHER -> <<"carol", "u2", "u3", "u4", "u5", "u6", "u7", "u8", "u9">> ]

\* A ticket lists a component once.
ComponentLists ==
    { cs \in UNION { [1..k -> Components] : k \in 0..MaxComponents } :
        \A a, b \in 1..Len(cs) : a # b => cs[a] # cs[b] }

\* What the GET of the ticket's components comes to: the fetch rejects, the
\* text is not JSON, the JSON has no `fields`, or it lists components.
JiraResponses ==
    { [kind |-> k, components |-> <<>>] : k \in {"rejected", "malformed", "noFields"} }
    \cup { [kind |-> "fields", components |-> cs] : cs \in ComponentLists }

NoJiraResponse == [kind |-> "pending", components |-> <<>>]

JiraGet(wtTicket) ==
    [ api |-> "fetch.get", url |-> "https://jira.mongodb.org/rest/api/2/issue/",
      wtTicket |-> wtTicket ]

AddAssignees(number, assignees) ==
    [ api |-> "issues.addAssignees", issue_number |-> number,
      assignees |-> assignees ]

\* wtTicketRegex.exec(title), wtTicketRegex = /(?<wtTicket>WT-[0-9]+) .*/ :
\* the leftmost match; the group is "WT-" and the digits before the space.
wtTicketRegexExec(title) ==
    LET Starts == { i \in 1..Len(title) : \E j \in (i + 3)..(Len(title) - 1) :
                      /\ SubSeq(title, i, i + 2) = sTicket
                      /\ \A k \in (i + 3)..j : IsDigit(title[k])
                      /\ title[j + 1] = sSpace[1] }
    IN IF Starts = {} THEN [matched |-> FALSE, wtTicket |-> <<>>]
       ELSE LET i == CHOOSE s \in Starts : \A o \in Starts : s <= o
                j == CHOOSE e \in (i + 3)..(Len(title) - 1) :
                        /\ \A k \in (i + 3)..e : IsDigit(title[k])
                        /\ title[e + 1] = sSpace[1]
            IN [matched |-> TRUE, wtTicket |-> SubSeq(title, i, j)]

assignDevelopersVerifyTargetIsDefaultBranch_Always(payload) == TRUE

\* assignDevelopers.ts has its own copy of verifyTargetIsDefaultBranch.
assignDevelopersVerifyTargetIsDefaultBranch(payload) ==
    LET parts == split(payload.base_label, sColon[1])
    IN IF Len(parts) >= 2 THEN parts[2] = payload.default_branch ELSE FALSE

getComponentList_Silent(e, jira) ==
    IF jira.kind \in {"rejected", "malformed"}
    THEN [threw |-> TRUE, components |-> <<>>, out |-> <<>>]
    ELSE [threw |-> FALSE, components |-> jira.components, out |-> <<>>]

\* getComponentList after its fetch settled: it throws (rejected fetch,
\* JSON.parse), or warns and returns [], or returns the component names.
getComponentList(e, jira) ==
    CASE jira.kind \in {"rejected", "malformed"} ->
            [threw |-> TRUE, components |-> <<>>, out |-> <<>>]
      [] jira.kind = "noFields" ->
            [threw |-> FALSE, components |-> <<>>, out |-> slackMessageWarning(e)]
      [] OTHER ->
            [threw |-> FALSE, components |-> jira.components, out |-> <<>>]

\* getAssignedSmeGroups: undefined when the file does not exist; a component
\* without an entry gets members undefined (hasMembers FALSE).
getAssignedSmeGroups(ticketComponents, fileExists) ==
    IF fileExists
    THEN [ defined |-> TRUE,
           groups |-> [ k \in 1..Len(ticketComponents) |->
              LET component == ticketComponents[k]
              IN IF component \in DOMAIN smeGroupsJson
                 THEN [component |-> component, hasMembers |-> TRUE,
                       members |-> smeGroupsJson[component]]
                 ELSE [component |-> component, hasMembers |-> FALSE,
                       members |-> <<>>] ] ]
    ELSE [defined |-> FALSE, groups |-> <<>>]

\* [...new Set(list)]: each value once, at its first position.
RECURSIVE newSet(_)
newSet(list) ==
    IF list = <<>> THEN <<>>
    ELSE LET init == newSet(SubSeq(list, 1, Len(list) - 1))
             last == list[Len(list)]
         IN IF \E k \in 1..Len(init) : init[k] = last
            THEN init ELSE Append(init, last)

RECURSIVE concatMembers(_)
concatMembers(assignedSmeGroups) ==
    IF assignedSmeGroups = <<>> THEN <<>>
    ELSE LET smeGroup == Head(assignedSmeGroups)
         IN (IF smeGroup.hasMembers THEN smeGroup.members ELSE <<>>)
            \o concatMembers(Tail(assignedSmeGroups))

buildAssigneeList_Concat(assignedSmeGroups) == concatMembers(assignedSmeGroups)

buildAssigneeList(assignedSmeGroups) == newSet(concatMembers(assignedSmeGroups))

\* GitHub keeps at most this many assignees on a PR.
GithubAssigneeLimit == 10

TruncationNotice ==
    "<sub>Github limits PRs to at most 10. Assignee list has been truncated</sub>"

buildAssigneeMessage_AtLimit(smeGroups, assigneeList) ==
    [ threw |-> \E k \in 1..Len(smeGroups) : ~smeGroups[k].hasMembers,
      lines |-> [ k \in 1..Len(smeGroups) |->
                    <<smeGroups[k].component, smeGroups[k].members>> ],
      notice |-> IF Len(assigneeList) >= GithubAssigneeLimit
                 THEN TruncationNotice ELSE "" ]

\* buildAssigneeMessage: one line per group, `component`: members.join(', ');
\* join on undefined members is a TypeError (threw).
buildAssigneeMessage(smeGroups, assigneeList) ==
    [ threw |-> \E k \in 1..Len(smeGroups) : ~smeGroups[k].hasMembers,
      lines |-> [ k \in 1..Len(smeGroups) |->
                    <<smeGroups[k].component, smeGroups[k].members>> ],
      notice |-> IF Len(assigneeList) > GithubAssigneeLimit
                 THEN TruncationNotice ELSE "" ]

NoMessage == [threw |-> FALSE, lines |-> <<>>, notice |-> ""]

assignDevelopers_NoDryRun(e, payload, assigneeList, assigneeMessage) ==
    [ pc |-> "awaitAssignees",
      out |-> <<AddAssignees(payload.number, assigneeList)>> ]

assignDevelopers_Unawaited(e, payload, assigneeList, assigneeMessage) ==
    IF e = "true"
    THEN [ pc |-> "done",
           out |-> << ConsoleLog("Dry run: assignee list", assigneeList),
                      ConsoleLog("Dry run: PR message", assigneeMessage) >> ]
    ELSE [ pc |-> "awaitComment",
           out |-> << AddAssignees(payload.number, assigneeList),
                      CreateComment(payload.number, assigneeMessage) >> ]

\* assignDevelopers up to its first await.
assignDevelopers(e, payload, assigneeList, assigneeMessage) ==
    IF e = "true"
    THEN [ pc |-> "done",
           out |-> << ConsoleLog("Dry run: assignee list", assigneeList),
                      ConsoleLog("Dry run: PR message", assigneeMessage) >> ]
    ELSE [ pc |-> "awaitAssignees",
           out |-> <<AddAssignees(payload.number, assigneeList)>> ]

\* buildAssigneeListAndMessage from the settled GET on: what was thrown or
\* returned (found FALSE is `undefined`), the calls made on the way, and the
\* locals assigneeList and assigneeMessage as far as they were assigned.
buildAssigneeListAndMessage(e, jira, fileExists) ==
    LET c == getComponentList(e, jira)
        g == getAssignedSmeGroups(c.components, fileExists)
        assigneeList == buildAssigneeList(g.groups)
        assigneeMessage == buildAssigneeMessage(g.groups, assigneeList)
    IN IF c.threw
       THEN [threw |-> TRUE, found |-> FALSE, out |-> <<>>,
             assigneeList |-> <<>>, assigneeMessage |-> NoMessage]
       ELSE IF ~g.defined
       THEN [threw |-> TRUE, found |-> FALSE, out |-> c.out,
             assigneeList |-> <<>>, assigneeMessage |-> NoMessage]
       ELSE IF assigneeMessage.threw
       THEN [threw |-> TRUE, found |-> FALSE, out |-> c.out,
             assigneeList |-> assigneeList, assigneeMessage |-> NoMessage]
       ELSE [threw |-> FALSE, found |-> assigneeList # <<>>, out |-> c.out,
             assigneeList |-> assigneeList, assigneeMessage |-> assigneeMessage]

\* The opened handler up to its first await: the GET of the ticket.
assignDevelopersOpenedStart(e, payload) ==
    LET match == wtTicketRegexExec(payload.title)
    IN IF ~assignDevelopersVerifyTargetIsDefaultBranch(payload)
       THEN [pc |-> "done", out |-> <<>>]
       ELSE IF ~match.matched
       THEN [pc |-> "done", out |-> <<>>]
       ELSE [pc |-> "awaitTracker", out |-> <<JiraGet(match.wtTicket)>>]

\* ------------------------------------------------------------------ app.ts
\* `if (process.env['DRY_RUN'])` at start-up: an unset variable is undefined
\* and an empty string is falsy, every other string is truthy.  TRUE when the
\* 'Running in dry mode' lines are printed.
dryRunBanner(e) == e \notin {Undefined, ""}

\* ------------------------------------------- notifySlack.ts, the stack trace
\* A string the code only measures, cuts and concatenates is its length.
\* Longest stack trace handed to sendSlackMessage.
MaxTraceLength == 3000
\* Trace files of one second that may exist already: -1 (no suffix) .. -N.
MaxTraceFiles == 3

\* stack_trace.length > 2950
TraceLimit == 2950
\* stack_trace.slice(0, 2800)
TraceSlice == 2800

\* new Date(): the shortest and the longest date-and-time string.
Dates ==
    { [year |-> 2026, month |-> 0, date |-> 1, hours |-> 0, minutes |-> 0, seconds |-> 0],
      [year |-> 2026, month |-> 11, date |-> 31, hours |-> 23, minutes |-> 59, seconds |-> 59] }

\* The length of a number in a template string.
RECURSIVE toStringLength(_)
toStringLength(n) == IF n < 10 THEN 1 ELSE 1 + toStringLength(n \div 10)

\* dateTimeStr, YYYY-mm-dd_hh-mm-ss without padding.
dateTimeStrLength(d) ==
    toStringLength(d.year) + Len("-") + toStringLength(d.month) + Len("-")
      + toStringLength(d.date) + Len("_") + toStringLength(d.hours) + Len("-")
      + toStringLength(d.minutes) + Len("-") + toStringLength(d.seconds)

\* Trace files of the current second are known by their suffix: 1 is
\* <dateTimeStr>.txt, i >= 2 is <dateTimeStr>-i.txt.
fileNameLength(d, i) ==
    Len("./traces/") + dateTimeStrLength(d)
      + (IF i = 1 THEN Len(".txt") ELSE Len("-") + toStringLength(i) + Len(".txt"))

\* getLogFileName: the unsuffixed name unless it exists, else the first
\* suffix from 2 on whose file does not exist.
getLogFileName(files) ==
    IF 1 \notin files THEN 1
    ELSE CHOOSE i \in 2..(MaxTraceFiles + 2) :
            i \notin files /\ \A j \in 2..(i - 1) : j \in files

\* The three grave accents (code unit 96) that open and close the trace.
Fence == <<96, 96, 96>>

\* wrapMessageInBlock: the text of the second block, none for no trace.
wrapMessageInBlock(stackTraceLength) ==
    IF stackTraceLength = 0 THEN 0
    ELSE Len(Fence) + stackTraceLength + Len(Fence)

Min(a, b) == IF a < b THEN a ELSE b

sendSlackMessageTrace_NoSlice(stackTraceLength, d, files, writeOk) ==
    IF stackTraceLength > TraceLimit
    THEN LET fileName == getLogFileName(files)
         IN IF ~writeOk
            THEN [threw |-> TRUE, block |-> 0, fileName |-> fileName,
                  files |-> files, written |-> 0]
            ELSE [threw |-> FALSE,
                  block |-> wrapMessageInBlock(
                      Len("Message exceeds 3000 characters. ")
                      + Len("Truncating and saving full trace to ")
                      + fileNameLength(d, fileName) + 2 + stackTraceLength),
                  fileName |-> fileName, files |-> files \cup {fileName},
                  written |-> stackTraceLength]
    ELSE [threw |-> FALSE, block |-> wrapMessageInBlock(stackTraceLength),
          fileName |-> 0, files |-> files, written |-> 0]

\* sendSlackMessage as far as the stack trace goes: a trace over the limit is
\* written to a new file (writeFileSync may throw) and replaced by a notice,
\* the file name, two newlines and its first TraceSlice characters.
sendSlackMessageTrace(stackTraceLength, d, files, writeOk) ==
    IF stackTraceLength > TraceLimit
    THEN LET fileName == getLogFileName(files)
         IN IF ~writeOk
            THEN [threw |-> TRUE, block |-> 0, fileName |-> fileName,
                  files |-> files, written |-> 0]
            ELSE [threw |-> FALSE,
                  block |-> wrapMessageInBlock(
                      Len("Message exceeds 3000 characters. ")
                      + Len("Truncating and saving full trace to ")
                      + fileNameLength(d, fileName) + 2
                      + Min(stackTraceLength, TraceSlice)),
                  fileName |-> fileName, files |-> files \cup {fileName},
                  written |-> stackTraceLength]
    ELSE [threw |-> FALSE, block |-> wrapMessageInBlock(stackTraceLength),
          fileName |-> 0, files |-> files, written |-> 0]

\* The notifier at rest: no message with a trace under way.
IdleNotifier ==
    [ phase |-> "idle", stack_trace |-> 0,
      date |-> [year |-> 2026, month |-> 0, date |-> 1, hours |-> 0,
                minutes |-> 0, seconds |-> 0],
      before |-> {}, files |-> {}, block |-> 0, fileName |-> 0, written |-> 0 ]

\* ------------------------------------------------------------------ router
\* A handler: where it is (pc), the outbound calls it has issued and the dry-run
\* lines it has printed (out), whether its catch block ran (caught), whether a
\* call it issued without awaiting it has rejected (rejected).
NoHandler == [pc |-> "none", out |-> <<>>, caught |-> FALSE, rejected |-> FALSE]

\* The external contributor handlers also hold the settled membership query
\* (response) and the value userIsOrgMember returned (member).
NoResponse == [settled |-> "pending", status |-> 0]
NoExtHandler ==
    [pc |-> "none", out |-> <<>>, caught |-> FALSE, rejected |-> FALSE,
     response |-> NoResponse, member |-> FALSE]

\* A title handler has no await: called by the dispatch, it runs to its end.
PrTitleHandler(e, payload) ==
    [pc |-> "done", out |-> registerPrTitleCheckHooks(e, payload), caught |-> FALSE,
     rejected |-> FALSE]

\* An external contributor handler, called by the dispatch, runs to its first
\* await (the membership query) or to its return.
ExternalContributorHandler(e, payload) ==
    LET r == IF payload.action = "opened"
             THEN externalContributorOpenedStart(e, payload)
             ELSE externalContributorSynchronizeStart(e, payload)
    IN [pc |-> r.pc, out |-> r.out, caught |-> FALSE, rejected |-> FALSE,
        response |-> NoResponse, member |-> FALSE]

\* The assignment handler also holds the settled GET of the ticket (jira),
\* whether SME_GROUPS_FILE existed (smeFile), and the list and the message
\* buildAssigneeListAndMessage returned.
NoAssignHandler ==
    [pc |-> "none", out |-> <<>>, caught |-> FALSE, jira |-> NoJiraResponse,
     smeFile |-> TRUE, assigneeList |-> <<>>, assigneeMessage |-> NoMessage]

\* The assignment handler, called by the dispatch, runs to the GET of the
\* ticket or to its return.
AssignDevelopersHandler(e, payload) ==
    LET r == assignDevelopersOpenedStart(e, payload)
    IN [NoAssignHandler EXCEPT !.pc = r.pc, !.out = r.out]

PrTitleEvents == {"opened", "edited", "synchronize"}
ExternalContributorEvents == {"opened", "synchronize"}
AssignDevelopersEvents_All == {"opened", "edited", "synchronize"}
AssignDevelopersEvents == {"opened"}

\* app.webhooks receives a delivery: every handler the registered rules
\* subscribed to the event's action is called, and runs to its first await.
Deliver(payload, rules) ==
    /\ inbox' = Append(inbox, payload)
    /\ titleRule' = Append(titleRule,
          IF "prTitleValidation" \in rules /\ payload.action \in PrTitleEvents
          THEN PrTitleHandler(env, payload) ELSE NoHandler)
    /\ extRule' = Append(extRule,
          IF "externalContributorChecks" \in rules
             /\ payload.action \in ExternalContributorEvents
          THEN ExternalContributorHandler(env, payload) ELSE NoExtHandler)
    /\ assignRule' = Append(assignRule,
          IF "assignDevelopers" \in rules /\ payload.action \in AssignDevelopersEvents
          THEN AssignDevelopersHandler(env, payload) ELSE NoAssignHandler)
    /\ UNCHANGED <<env, uncaught, banner, notifier>>

\* The membership query settles and the handler runs to its next await.
ExternalContributorMembershipSettles(i, responses) ==
    /\ extRule[i].pc = "awaitMembership"
    /\ \E response \in responses :
          LET m == userIsOrgMember(env, response)
              r == IF m.member THEN [pc |-> "done", out |-> <<>>]
                   ELSE IF inbox[i].action = "opened"
                   THEN externalContributorOpenedNonMember(env, inbox[i])
                   ELSE externalContributorSynchronizeNonMember(env, inbox[i])
          IN extRule' = [extRule EXCEPT ![i] =
                [@ EXCEPT !.pc = r.pc, !.out = @ \o m.out \o r.out,
                          !.response = response, !.member = m.member]]
    /\ UNCHANGED <<env, inbox, titleRule, assignRule, uncaught, banner, notifier>>

ExternalContributorMembership(i) ==
    ExternalContributorMembershipSettles(i, MembershipResponses)

ExternalContributorComment_Aborting(i) ==
    /\ extRule[i].pc = "awaitComment"
    /\ \E ok \in BOOLEAN :
          /\ extRule' = [extRule EXCEPT ![i] =
                IF ok
                THEN [@ EXCEPT !.pc = "done",
                               !.out = @ \o externalContributorOpenedCommented(env, inbox[i])]
                ELSE [@ EXCEPT !.pc = "done", !.caught = TRUE,
                               !.out = @ \o reportWebhookError(env)]]
          /\ assignRule' = IF ok THEN assignRule
                           ELSE [assignRule EXCEPT ![i].pc = "done"]
    /\ UNCHANGED <<env, inbox, titleRule, uncaught, banner, notifier>>

\* createComment settles: the handler goes on, or its catch block reports.
ExternalContributorComment(i) ==
    /\ extRule[i].pc = "awaitComment"
    /\ \E ok \in BOOLEAN :
          extRule' = [extRule EXCEPT ![i] =
             IF ok
             THEN [@ EXCEPT !.pc = "done",
                            !.out = @ \o externalContributorOpenedCommented(env, inbox[i])]
             ELSE [@ EXCEPT !.pc = "done", !.caught = TRUE,
                            !.out = @ \o reportWebhookError(env)]]
    /\ UNCHANGED <<env, inbox, titleRule, assignRule, uncaught, banner, notifier>>

\* The GET of the ticket settles: the handler builds the list and the message
\* and runs to addAssignees, to its return, or to its catch block.
AssignDevelopersTrackerSettles(i, responses) ==
    /\ assignRule[i].pc = "awaitTracker"
    /\ \E jira \in responses, fileExists \in BOOLEAN :
          LET b == buildAssigneeListAndMessage(env, jira, fileExists)
              a == assignDevelopers(env, inbox[i], b.assigneeList, b.assigneeMessage)
              read == ~getComponentList(env, jira).threw
              h == [assignRule[i] EXCEPT !.jira = jira,
                       !.smeFile = IF read THEN fileExists ELSE @,
                       !.assigneeList = b.assigneeList,
                       !.assigneeMessage = b.assigneeMessage]
          IN /\ (read \/ fileExists)
             /\ assignRule' = [assignRule EXCEPT ![i] =
                   IF b.threw
                   THEN [h EXCEPT !.pc = "done", !.caught = TRUE,
                                  !.out = @ \o b.out \o reportWebhookError(env)]
                   ELSE IF ~b.found
                   THEN [h EXCEPT !.pc = "done", !.out = @ \o b.out]
                   ELSE [h EXCEPT !.pc = a.pc, !.out = @ \o b.out \o a.out]]
    /\ UNCHANGED <<env, inbox, titleRule, extRule, uncaught, banner, notifier>>

AssignDevelopersTracker(i) == AssignDevelopersTrackerSettles(i, JiraResponses)

AssignDevelopersAssigned_LastPayload(i) ==
    /\ assignRule[i].pc = "awaitAssignees"
    /\ \E ok \in BOOLEAN :
          assignRule' = [assignRule EXCEPT ![i] =
             IF ok
             THEN [@ EXCEPT !.pc = "awaitComment",
                            !.out = @ \o <<CreateComment(inbox[Len(inbox)].number,
                                             assignRule[i].assigneeMessage)>>]
             ELSE [@ EXCEPT !.pc = "done", !.caught = TRUE,
                            !.out = @ \o reportWebhookError(env)]]
    /\ UNCHANGED <<env, inbox, titleRule, extRule, uncaught, banner, notifier>>

\* addAssignees settles: the handler goes on to createComment, or its catch
\* block reports.
AssignDevelopersAssigned(i) ==
    /\ assignRule[i].pc = "awaitAssignees"
    /\ \E ok \in BOOLEAN :
          assignRule' = [assignRule EXCEPT ![i] =
             IF ok
             THEN [@ EXCEPT !.pc = "awaitComment",
                            !.out = @ \o <<CreateComment(inbox[i].number,
                                             assignRule[i].assigneeMessage)>>]
             ELSE [@ EXCEPT !.pc = "done", !.caught = TRUE,
                            !.out = @ \o reportWebhookError(env)]]
    /\ UNCHANGED <<env, inbox, titleRule, extRule, uncaught, banner, notifier>>

\* createComment settles: the handler returns, or its catch block reports.
AssignDevelopersCommented(i) ==
    /\ assignRule[i].pc = "awaitComment"
    /\ \E ok \in BOOLEAN :
          assignRule' = [assignRule EXCEPT ![i] =
             IF ok
             THEN [@ EXCEPT !.pc = "done"]
             ELSE [@ EXCEPT !.pc = "done", !.caught = TRUE,
                            !.out = @ \o reportWebhookError(env)]]
    /\ UNCHANGED <<env, inbox, titleRule, extRule, uncaught, banner, notifier>>

\* process.on('uncaughtException'): what slips past the handlers' catch
\* blocks is reported from here.
uncaughtException(e) == slackMessageError(e)

\* A checks.create call is issued with `void`, not awaited: when it rejects,
\* the handler's try block is long left, and the rejection reaches the process.
PrTitleCheckRejects(i) ==
    /\ ~titleRule[i].rejected
    /\ \E k \in 1..Len(titleRule[i].out) : titleRule[i].out[k].api = "checks.create"
    /\ titleRule' = [titleRule EXCEPT ![i].rejected = TRUE]
    /\ uncaught' = uncaught \o uncaughtException(env)
    /\ UNCHANGED <<env, inbox, extRule, assignRule, banner, notifier>>

ExternalContributorCheckRejects(i) ==
    /\ ~extRule[i].rejected
    /\ \E k \in 1..Len(extRule[i].out) : extRule[i].out[k].api = "checks.create"
    /\ extRule' = [extRule EXCEPT ![i].rejected = TRUE]
    /\ uncaught' = uncaught \o uncaughtException(env)
    /\ UNCHANGED <<env, inbox, titleRule, assignRule, banner, notifier>>

Init ==
    /\ env \in DryRunValues
    /\ inbox = <<>>
    /\ titleRule = <<>>
    /\ extRule = <<>>
    /\ assignRule = <<>>
    /\ uncaught = <<>>
    /\ banner = dryRunBanner(env)
    /\ notifier = IdleNotifier

\* --------------------------------- the title check as a function of the title
DeliverTitle ==
    /\ Len(inbox) = 0
    /\ \E t \in Titles :
          Deliver(MkPayload("opened", 1, "sha1", sMain, "wiredtiger", t, FALSE),
                  {"prTitleValidation"})

NextTitle == DeliverTitle

SpecTitle == Init /\ [][NextTitle]_vars

\* ------------------------------------- the title rule over the three events
DeliverTitleEvent ==
    /\ Len(inbox) < MaxTitleDeliveries
    /\ \E action \in PrTitleEvents, sha \in Shas, ref \in Refs,
          t \in HandlerTitles, chg \in BOOLEAN :
          /\ (chg => action = "edited")
          /\ Deliver(MkPayload(action, 1, sha, ref, "wiredtiger", t, chg),
                     {"prTitleValidation"})

NextTitleRule == DeliverTitleEvent

SpecTitleRule == Init /\ [][NextTitleRule]_vars

\* ======================================================= title rule claims
\* The conclusion a title handler reported: in the check-creation call, or in
\* the dry-run console line.
Conclusion(r) == IF r.api = "checks.create" THEN r.conclusion ELSE r.detail

TitleDone(i) == titleRule[i].pc = "done"

\* ^WT-<digits><space>, whatever follows.
TicketAtStart(t) ==
    \E j \in 4..(Len(t) - 1) :
        /\ SubSeq(t, 1, 3) = sTicket
        /\ \A k \in 4..j : t[k] \in 48..57
        /\ t[j + 1] = 32

\* ^WT-<digits><space> and at least one further character.
TicketThenText(t) ==
    \E j \in 4..(Len(t) - 2) :
        /\ SubSeq(t, 1, 3) = sTicket
        /\ \A k \in 4..j : t[k] \in 48..57
        /\ t[j + 1] = 32

StartsWithRevert(t) == Len(t) >= 6 /\ SubSeq(t, 1, 6) = sRevert

AsciiOnly(t) == \A k \in 1..Len(t) : t[k] \in 0..127

\* C1: every title that neither starts with "Revert" nor has the ticket pattern
\* WT-<digits><space> at its first character is reported as 'failure'.
C1_UnticketedTitleFails ==
    \A i \in 1..Len(inbox) :
        (TitleDone(i) /\ ~StartsWithRevert(inbox[i].title)
                      /\ ~TicketAtStart(inbox[i].title))
        => /\ Len(titleRule[i].out) = 1
           /\ Conclusion(titleRule[i].out[1]) = "failure"

\* C2: every ASCII-only title that starts with "Revert", or with WT-<digits>, a
\* space and at least one further character, is reported as 'success'.
C2_TicketOrRevertSucceeds ==
    \A i \in 1..Len(inbox) :
        (TitleDone(i) /\ AsciiOnly(inbox[i].title)
                      /\ (StartsWithRevert(inbox[i].title)
                          \/ TicketThenText(inbox[i].title)))
        => /\ Len(titleRule[i].out) = 1
           /\ Conclusion(titleRule[i].out[1]) = "success"

\* C2 witness: the title "WT-1 x" has been reported as 'success'.
C2_Witness ==
    \E i \in 1..Len(inbox) :
        /\ TitleDone(i)
        /\ inbox[i].title = sTicket \o sDigit \o sSpace \o sLetter
        /\ Len(titleRule[i].out) = 1
        /\ Conclusion(titleRule[i].out[1]) = "success"

\* C3: every title with a character code above 127 is reported as 'failure',
\* revert title or not, ticket or not.
C3_NonAsciiFails ==
    \A i \in 1..Len(inbox) :
        (TitleDone(i) /\ \E k \in 1..Len(inbox[i].title) : inbox[i].title[k] > 127)
        => /\ Len(titleRule[i].out) = 1
           /\ Conclusion(titleRule[i].out[1]) = "failure"

\* C3 witness: a revert title with a non-ASCII character has been reported.
C3_Witness ==
    \E i \in 1..Len(inbox) :
        /\ TitleDone(i)
        /\ inbox[i].title = sRevert \o sSpace \o sEAcute
        /\ Len(titleRule[i].out) = 1
        /\ Conclusion(titleRule[i].out[1]) = "failure"

IsCheckCreate(r) == r.api = "checks.create"

\* C4: for opened, edited and synchronize alike, a PR whose target branch is not
\* the default branch gets no title check.
C4_BackportGetsNoTitleCheck ==
    \A i \in 1..Len(inbox) :
        (TitleDone(i) /\ inbox[i].base_ref # inbox[i].default_branch)
        => SelectSeq(titleRule[i].out, IsCheckCreate) = <<>>

TitleTriggers(p) ==
    \/ p.action \in {"opened", "synchronize"}
    \/ p.action = "edited" /\ p.changes_title

\* C5: outside dry-run and for a PR targeting the default branch, a handled
\* event makes exactly one check-creation call if it is opened, synchronize or
\* an edit of the title, and none if it is an edit that left the title alone;
\* the call carries the fixed check name and the payload's head commit id.
C5_OneCheckPerTrigger ==
    \A i \in 1..Len(inbox) :
        (TitleDone(i) /\ env # "true" /\ inbox[i].base_ref = inbox[i].default_branch)
        => LET calls == SelectSeq(titleRule[i].out, IsCheckCreate)
           IN /\ Len(calls) = IF TitleTriggers(inbox[i]) THEN 1 ELSE 0
              /\ \A k \in 1..Len(calls) :
                    /\ calls[k].head_sha = inbox[i].head_sha
                    /\ calls[k].name =
                         "PR title is an ASCII string. Non-revert PRs begin with a WT ticket: 'WT-[0-9]+ .*'"

\* C5 witness: outside dry-run an edit of the title of a PR on the default
\* branch has made its one call.
C5_Witness ==
    /\ env # "true"
    /\ \E i \in 1..Len(inbox) :
          /\ TitleDone(i)
          /\ inbox[i].action = "edited"
          /\ inbox[i].base_ref = inbox[i].default_branch
          /\ inbox[i].changes_title
          /\ Len(SelectSeq(titleRule[i].out, IsCheckCreate)) = 1

\* ========================================= the external contributor rule
ExtTitle == sTicket \o sDigit \o sSpace \o sLetter

DeliverExternalContributorEvent ==
    /\ Len(inbox) < MaxDeliveries
    /\ \E action \in ExternalContributorEvents, number \in PrNumbers,
          sha \in Shas, org \in Orgs :
          Deliver(MkPayload(action, number, sha, sMain, org, ExtTitle, FALSE),
                  {"externalContributorChecks"})

NextExt ==
    \/ DeliverExternalContributorEvent
    \/ \E i \in 1..Len(inbox) : ExternalContributorMembership(i)
    \/ \E i \in 1..Len(inbox) : ExternalContributorComment(i)

SpecExt == Init /\ [][NextExt]_vars

\* ========================================= external contributor rule claims
IsWarningPost(r) ==
    r.api = "fetch" /\ r.webhook = "SLACK_WEBHOOK_DEBUG" /\ r.color = "#DEB109"

IsWarningLine(r) ==
    r.api = "console.log" /\ r.what = "Dry run: Sending slack message"
                          /\ r.detail = "SLACK_WEBHOOK_DEBUG"

IsNotifyPost(r) == r.api = "fetch" /\ r.webhook = "SLACK_WEBHOOK_NOTIFY"

IsWelcomeComment(r) == r.api = "issues.createComment"

IsNeutralCheck(r) == r.api = "checks.create" /\ r.conclusion = "neutral"

Count(out, Test(_)) == Len(SelectSeq(out, Test))

\* The membership query of handler i has settled and userIsOrgMember returned.
MembershipDecided(i) == extRule[i].response.settled # "pending"

\* A handler whose catch block ran got there from a failed createComment, after
\* userIsOrgMember had returned: userIsOrgMember itself did not raise.
MembershipDidNotRaise(i) ==
    extRule[i].caught => Count(extRule[i].out, IsWelcomeComment) = 1

\* C6 as stated: status 204 gives 'member' and no warning, 404 gives 'not a
\* member' and no warning, every other status gives 'not a member' and exactly
\* one warning sent to the debug channel, whether the query resolved or
\* rejected; userIsOrgMember never raises.
C6_MembershipDecision ==
    \A i \in 1..Len(inbox) :
        MembershipDecided(i) =>
            /\ extRule[i].member = (extRule[i].response.status = 204)
            /\ Count(extRule[i].out, IsWarningPost)
                 = IF extRule[i].response.status \in {204, 404} THEN 0 ELSE 1
            /\ MembershipDidNotRaise(i)

\* C6 amended: the same decision; for a status other than 204 and 404 the one
\* warning is posted to the debug webhook unless DRY_RUN is 'true', where it is
\* printed once and nothing is posted.
C6_MembershipDecisionUnlessDry ==
    \A i \in 1..Len(inbox) :
        MembershipDecided(i) =>
            /\ extRule[i].member = (extRule[i].response.status = 204)
            /\ Count(extRule[i].out, IsWarningPost)
                 = IF extRule[i].response.status \in {204, 404} \/ env = "true"
                   THEN 0 ELSE 1
            /\ Count(extRule[i].out, IsWarningLine)
                 = IF extRule[i].response.status \notin {204, 404} /\ env = "true"
                   THEN 1 ELSE 0
            /\ MembershipDidNotRaise(i)

\* C6 witness: a rejected query with status 500 outside dry-run has been
\* answered 'not a member' with one warning posted.
C6_Witness ==
    \E i \in 1..Len(inbox) :
        /\ env # "true"
        /\ extRule[i].response = [settled |-> "rejected", status |-> 500]
        /\ ~extRule[i].member
        /\ Count(extRule[i].out, IsWarningPost) = 1

ExtDone(i) == extRule[i].pc = "done"

OpenedWithOrg(i) ==
    /\ inbox[i].action = "opened"
    /\ inbox[i].org # Undefined
    /\ env # "true"
    /\ ExtDone(i)
    /\ MembershipDecided(i)

NeutralCheckOnHead(i) ==
    LET checks == SelectSeq(extRule[i].out, IsNeutralCheck)
    IN /\ Len(checks) = 1
       /\ checks[1].head_sha = inbox[i].head_sha
       /\ Count(extRule[i].out, IsCheckCreate) = 1

\* C7 as stated: on opened, with an organization and outside dry-run, a
\* non-member author gets one welcome comment, one 'neutral' check on the head
\* commit and one team notification; a member gets none of the three.
C7_OpenedNonMemberGetsAllThree ==
    \A i \in 1..Len(inbox) :
        OpenedWithOrg(i) =>
            IF extRule[i].member
            THEN /\ Count(extRule[i].out, IsWelcomeComment) = 0
                 /\ Count(extRule[i].out, IsCheckCreate) = 0
                 /\ Count(extRule[i].out, IsNotifyPost) = 0
            ELSE /\ Count(extRule[i].out, IsWelcomeComment) = 1
                 /\ NeutralCheckOnHead(i)
                 /\ Count(extRule[i].out, IsNotifyPost) = 1

\* C7 amended: a non-member author gets one createComment call and, if that
\* call succeeds, one 'neutral' check on the head commit and one team
\* notification; if the call fails, no check and no notification; a member gets
\* none of the three.
C7_OpenedNonMemberUnlessCommentFails ==
    \A i \in 1..Len(inbox) :
        OpenedWithOrg(i) =>
            IF extRule[i].member
            THEN /\ Count(extRule[i].out, IsWelcomeComment) = 0
                 /\ Count(extRule[i].out, IsCheckCreate) = 0
                 /\ Count(extRule[i].out, IsNotifyPost) = 0
            ELSE /\ Count(extRule[i].out, IsWelcomeComment) = 1
                 /\ IF extRule[i].caught
                    THEN /\ Count(extRule[i].out, IsCheckCreate) = 0
                         /\ Count(extRule[i].out, IsNotifyPost) = 0
                    ELSE /\ NeutralCheckOnHead(i)
                         /\ Count(extRule[i].out, IsNotifyPost) = 1

\* C7 witness: an opened event of a non-member has ended with the comment, the
\* check and the notification.
C7_Witness ==
    \E i \in 1..Len(inbox) :
        /\ OpenedWithOrg(i)
        /\ ~extRule[i].member
        /\ ~extRule[i].caught
        /\ Count(extRule[i].out, IsWelcomeComment) = 1
        /\ NeutralCheckOnHead(i)
        /\ Count(extRule[i].out, IsNotifyPost) = 1

SynchronizeNonMember(i) ==
    /\ inbox[i].action = "synchronize"
    /\ ExtDone(i)
    /\ MembershipDecided(i)
    /\ ~extRule[i].member

\* C8 as stated: on synchronize for a non-member the rule creates the 'neutral'
\* check on the new head commit and does nothing else: no welcome comment, no
\* team notification.
C8_SynchronizeOnlyRefreshesCheck ==
    \A i \in 1..Len(inbox) :
        SynchronizeNonMember(i) =>
            /\ NeutralCheckOnHead(i)
            /\ Count(extRule[i].out, IsWelcomeComment) = 0
            /\ Count(extRule[i].out, IsNotifyPost) = 0

\* C8 amended: the same outside dry-run; with DRY_RUN 'true' the check is not
\* created either.
C8_SynchronizeOnlyRefreshesCheckUnlessDry ==
    \A i \in 1..Len(inbox) :
        SynchronizeNonMember(i) =>
            /\ IF env = "true"
               THEN Count(extRule[i].out, IsCheckCreate) = 0
               ELSE NeutralCheckOnHead(i)
            /\ Count(extRule[i].out, IsWelcomeComment) = 0
            /\ Count(extRule[i].out, IsNotifyPost) = 0

\* C8 witness: outside dry-run a synchronize event of a non-member has ended
\* with the check on its head commit.
C8_Witness ==
    \E i \in 1..Len(inbox) :
        /\ SynchronizeNonMember(i)
        /\ env # "true"
        /\ NeutralCheckOnHead(i)

RECURSIVE WelcomeComments(_, _)
\* The createComment calls issued for PR n by the deliveries 1..k.
WelcomeComments(n, k) ==
    IF k = 0 THEN 0
    ELSE WelcomeComments(n, k - 1)
         + (IF inbox[k].number = n THEN Count(extRule[k].out, IsWelcomeComment) ELSE 0)

OpenedDeliveries(n) ==
    { i \in 1..Len(inbox) : inbox[i].number = n /\ inbox[i].action = "opened" }

\* C9: when the deliveries for a PR are one opened event and any number of
\* synchronize events, handled in any interleaving, at most one welcome comment
\* is posted on the PR.
C9_AtMostOneWelcomeComment ==
    \A n \in PrNumbers :
        Cardinality(OpenedDeliveries(n)) <= 1
        => WelcomeComments(n, Len(inbox)) <= 1

\* C9 witness: a PR with one opened and one synchronize delivery, both of a
\* non-member and both handled to the end, has its one welcome comment.
C9_Witness ==
    \E n \in PrNumbers : \E i, j \in 1..Len(inbox) :
        /\ inbox[i].number = n /\ inbox[i].action = "opened"
        /\ inbox[j].number = n /\ inbox[j].action = "synchronize"
        /\ ExtDone(i) /\ SynchronizeNonMember(j)
        /\ WelcomeComments(n, Len(inbox)) = 1

\* C10: a second delivery of the same opened event (same PR, same commit) for a
\* non-member does not post a second welcome comment.
C10_RedeliveryPostsNoSecondComment ==
    \A i, j \in 1..Len(inbox) :
        (i < j /\ inbox[i] = inbox[j] /\ inbox[i].action = "opened")
        => Count(extRule[i].out, IsWelcomeComment)
             + Count(extRule[j].out, IsWelcomeComment) <= 1

\* ========================================= missing organization
IsMembershipQuery(r) == r.api = "orgs.checkMembershipForUser"

\* C11: for opened and synchronize alike, a payload that carries no
\* organization makes the rule warn and stop: it queries no membership under
\* a made-up organization name, and makes no comment, check or notification.
C11_NoOrganizationWarnsAndAborts ==
    \A i \in 1..Len(inbox) :
        (inbox[i].action \in {"opened", "synchronize"} /\ inbox[i].org = Undefined)
        => /\ extRule[i].pc = "done"
           /\ Count(extRule[i].out, IsMembershipQuery) = 0
           /\ Count(extRule[i].out, IsWelcomeComment) = 0
           /\ Count(extRule[i].out, IsCheckCreate) = 0
           /\ Count(extRule[i].out, IsNotifyPost) = 0
           /\ Count(extRule[i].out, IsWarningPost)
                + Count(extRule[i].out, IsWarningLine) = 1

\* ========================================= the developer assignment rule
\* "WT-1 x", "x WT-1 x" and "x x": a ticket first, a ticket later, no ticket.
AssignTitles ==
    { sTicket \o sDigit \o sSpace \o sLetter,
      sLetter \o sSpace \o sTicket \o sDigit \o sSpace \o sLetter,
      sLetter \o sSpace \o sLetter }

\* Webhook deliveries handled in one run of the assignment rule.
MaxAssignDeliveries == 1

DeliverAssignEvent ==
    /\ Len(inbox) < MaxAssignDeliveries
    /\ \E action \in {"opened", "edited", "synchronize"}, ref \in Refs,
          title \in AssignTitles :
          Deliver(MkPayload(action, 1, "sha1", ref, "wiredtiger", title, FALSE),
                  {"assignDevelopers"})

NextAssign ==
    \/ DeliverAssignEvent
    \/ \E i \in 1..Len(inbox) : AssignDevelopersTracker(i)
    \/ \E i \in 1..Len(inbox) : AssignDevelopersAssigned(i)
    \/ \E i \in 1..Len(inbox) : AssignDevelopersCommented(i)

SpecAssign == Init /\ [][NextAssign]_vars

\* ========================================= developer assignment rule claims
IsJiraGet(r) == r.api = "fetch.get"

IsAddAssignees(r) == r.api = "issues.addAssignees"

IsAssignComment(r) == r.api = "issues.createComment"

IsErrorPost(r) ==
    r.api = "fetch" /\ r.webhook = "SLACK_WEBHOOK_DEBUG" /\ r.color = "#9A2925"

TrackerSettled(i) == assignRule[i].jira.kind # "pending"

\* C12: the assignment rule runs on opened only: while an edited or a
\* synchronize event is handled the rule does not run, so it calls neither
\* add-assignees nor createComment (nor anything else).
C12_AssignsOnOpenedOnly ==
    \A i \in 1..Len(inbox) :
        inbox[i].action \in {"edited", "synchronize"}
        => /\ assignRule[i].pc = "none"
           /\ assignRule[i].out = <<>>

\* C12 witness: a synchronize event of a PR on the default branch whose title
\* begins with a ticket was delivered and the rule made no call.
C12_Witness ==
    \E i \in 1..Len(inbox) :
        /\ inbox[i].action = "synchronize"
        /\ inbox[i].base_ref = inbox[i].default_branch
        /\ TicketAtStart(inbox[i].title)
        /\ Count(assignRule[i].out, IsAddAssignees) = 0
        /\ Count(assignRule[i].out, IsAssignComment) = 0

\* C13: an opened PR whose target branch is not the default branch gets no
\* tracker lookup, no add-assignees call and no comment.
C13_BackportGetsNoAssignment ==
    \A i \in 1..Len(inbox) :
        (inbox[i].action = "opened" /\ inbox[i].base_ref # inbox[i].default_branch)
        => /\ Count(assignRule[i].out, IsJiraGet) = 0
           /\ Count(assignRule[i].out, IsAddAssignees) = 0
           /\ Count(assignRule[i].out, IsAssignComment) = 0

\* C13 witness: the handler of an opened PR with a ticket title and a
\* non-default target has returned.
C13_Witness ==
    \E i \in 1..Len(inbox) :
        /\ inbox[i].action = "opened"
        /\ inbox[i].base_ref = sBackport
        /\ TicketAtStart(inbox[i].title)
        /\ assignRule[i].pc = "done"
        /\ assignRule[i].out = <<>>

\* C14: the ticket is taken from the start of the title only: an opened PR
\* whose title does not begin with WT-<digits> and a space gets no tracker
\* lookup, no add-assignees call, no comment, and no error report.
C14_TicketOnlyFromStartOfTitle ==
    \A i \in 1..Len(inbox) :
        (inbox[i].action = "opened" /\ ~TicketAtStart(inbox[i].title))
        => /\ Count(assignRule[i].out, IsJiraGet) = 0
           /\ Count(assignRule[i].out, IsAddAssignees) = 0
           /\ Count(assignRule[i].out, IsAssignComment) = 0
           /\ Count(assignRule[i].out, IsErrorPost) = 0
           /\ ~assignRule[i].caught

Configured(c) == c \in {"Cache and eviction", "Logging", "Storage"}

\* The ticket's components as the tracker returned them.
TicketComponents(i) == assignRule[i].jira.components

\* The settled lookup listed a component with members and one without entry.
ConfiguredAndUnconfigured(i) ==
    /\ assignRule[i].jira.kind = "fields"
    /\ assignRule[i].smeFile
    /\ \E k \in 1..Len(TicketComponents(i)) : Configured(TicketComponents(i)[k])
    /\ \E k \in 1..Len(TicketComponents(i)) : ~Configured(TicketComponents(i)[k])

\* C15: a component without an entry in the configuration counts as an empty
\* member list and is no error: a ticket with one configured and one
\* unconfigured component still gets its assignment (outside dry-run the
\* add-assignees call, then the comment unless a call failed), and no error
\* is raised before the calls.
C15_UnconfiguredComponentIsEmpty ==
    \A i \in 1..Len(inbox) :
        ConfiguredAndUnconfigured(i)
        => /\ env # "true" => Count(assignRule[i].out, IsAddAssignees) = 1
           /\ env = "true" => ~assignRule[i].caught
           /\ (env # "true" /\ assignRule[i].pc = "done" /\ ~assignRule[i].caught)
              => Count(assignRule[i].out, IsAssignComment) = 1

\* The member lists of the ticket's components, one after the other.
Concatenation(i) ==
    Flatten([ k \in 1..Len(TicketComponents(i)) |->
                IF Configured(TicketComponents(i)[k])
                THEN smeGroupsJson[TicketComponents(i)[k]] ELSE <<>> ])

MatchedMembers(i) ==
    LET all == Concatenation(i) IN { all[n] : n \in 1..Len(all) }

ListBuilt(i) == assignRule[i].jira.kind = "fields" /\ assignRule[i].smeFile

\* C16: the list buildAssigneeList returns has no repeated user, holds only
\* members of the ticket's components and all of them, in the order of their
\* first appearance in the concatenation of the member lists: each entry is
\* the first user of the concatenation that no earlier entry names.
C16_AssigneeListIsOrderedUnion ==
    \A i \in 1..Len(inbox) :
        ListBuilt(i)
        => LET list == assignRule[i].assigneeList
               all == Concatenation(i)
           IN /\ \A a, b \in 1..Len(list) : a # b => list[a] # list[b]
              /\ { list[k] : k \in 1..Len(list) } = { all[n] : n \in 1..Len(all) }
              /\ \A k \in 1..Len(list) : \E n \in 1..Len(all) :
                    /\ all[n] = list[k]
                    /\ \A m \in 1..(n - 1) : \E j \in 1..(k - 1) : list[j] = all[m]

\* C16 witness: "Cache and eviction" [alice, bob] then "Logging" [bob, carol]
\* gave [alice, bob, carol].
C16_Witness ==
    \E i \in 1..Len(inbox) :
        /\ ListBuilt(i)
        /\ TicketComponents(i) = <<"Cache and eviction", "Logging">>
        /\ assignRule[i].assigneeList = <<"alice", "bob", "carol">>

\* C17: the comment carries the truncation notice exactly when the ticket's
\* components have more than 10 distinct members, and the add-assignees call
\* gets every one of them all the same.
C17_TruncationNoticeAboveTen ==
    \A i \in 1..Len(inbox) : \A k \in 1..Len(assignRule[i].out) :
        LET r == assignRule[i].out[k]
        IN /\ IsAssignComment(r)
              => (r.body.notice = TruncationNotice
                    <=> Cardinality(MatchedMembers(i)) > 10)
           /\ IsAddAssignees(r)
              => /\ Len(r.assignees) = Cardinality(MatchedMembers(i))
                 /\ { r.assignees[n] : n \in 1..Len(r.assignees) } = MatchedMembers(i)

\* C17 witness: eleven users were passed to add-assignees and the comment
\* with the notice was posted.
C17_Witness ==
    \E i \in 1..Len(inbox) :
        /\ Cardinality(MatchedMembers(i)) = 11
        /\ \E k \in 1..Len(assignRule[i].out) :
              /\ IsAddAssignees(assignRule[i].out[k])
              /\ Len(assignRule[i].out[k].assignees) = 11
        /\ \E k \in 1..Len(assignRule[i].out) :
              /\ IsAssignComment(assignRule[i].out[k])
              /\ assignRule[i].out[k].body.notice = TruncationNotice

\* ========================================= the whole application
\* "WT-1 x" and "x x".
AppTitles ==
    { sTicket \o sDigit \o sSpace \o sLetter, sLetter \o sSpace \o sLetter }

\* Answers of the tracker in a run of the application: the GET rejects, the
\* ticket is not found, two configured components, one of two unconfigured.
AppJiraResponses ==
    { [kind |-> "rejected", components |-> <<>>],
      [kind |-> "noFields", components |-> <<>>],
      [kind |-> "fields", components |-> <<"Cache and eviction", "Logging">>],
      [kind |-> "fields", components |-> <<"Cache and eviction", "Unknown">>] }

\* Webhook deliveries handled in one run of the application.
MaxAppDeliveries == 1

AppRules == {"prTitleValidation", "externalContributorChecks", "assignDevelopers"}

DeliverEvent ==
    /\ Len(inbox) < MaxAppDeliveries
    /\ \E action \in {"opened", "edited", "synchronize"}, ref \in Refs,
          title \in AppTitles :
          Deliver(MkPayload(action, 1, "sha1", ref, "wiredtiger", title, TRUE),
                  AppRules)

Next ==
    \/ DeliverEvent
    \/ \E i \in 1..Len(inbox) : ExternalContributorMembership(i)
    \/ \E i \in 1..Len(inbox) : ExternalContributorComment(i)
    \/ \E i \in 1..Len(inbox) : AssignDevelopersTrackerSettles(i, AppJiraResponses)
    \/ \E i \in 1..Len(inbox) : AssignDevelopersAssigned(i)
    \/ \E i \in 1..Len(inbox) : AssignDevelopersCommented(i)
    \/ \E i \in 1..Len(inbox) : PrTitleCheckRejects(i)
    \/ \E i \in 1..Len(inbox) : ExternalContributorCheckRejects(i)

Spec == Init /\ [][Next]_vars

\* ------------------------------------------------ the values of DRY_RUN
\* Values of process.env['DRY_RUN']: unset, '', 'true', 'false', '1', 'TRUE'.
EnvValues == {Undefined, "", "true", "false", "1", "TRUE"}

InitEnv ==
    /\ env \in EnvValues
    /\ inbox = <<>>
    /\ titleRule = <<>>
    /\ extRule = <<>>
    /\ assignRule = <<>>
    /\ uncaught = <<>>
    /\ banner = dryRunBanner(env)
    /\ notifier = IdleNotifier

\* Events of a PR on the default branch whose title begins with a ticket; the
\* calls issued are followed as far as the handlers await them.
DeliverEnvEvent ==
    /\ Len(inbox) < MaxAppDeliveries
    /\ \E action \in {"opened", "edited", "synchronize"} :
          Deliver(MkPayload(action, 1, "sha1", sMain, "wiredtiger", ExtTitle, TRUE),
                  AppRules)

NextEnv ==
    \/ DeliverEnvEvent
    \/ \E i \in 1..Len(inbox) : ExternalContributorMembership(i)
    \/ \E i \in 1..Len(inbox) : ExternalContributorComment(i)
    \/ \E i \in 1..Len(inbox) : AssignDevelopersTrackerSettles(i, AppJiraResponses)
    \/ \E i \in 1..Len(inbox) : AssignDevelopersAssigned(i)
    \/ \E i \in 1..Len(inbox) : AssignDevelopersCommented(i)

SpecEnv == InitEnv /\ [][NextEnv]_vars

\* ========================================= whole application claims
\* The calls that change something outside: a check, a comment, assignees, a
\* POST to a Slack webhook.  The GETs of the tracker and of the membership
\* do not.
IsMutating(r) ==
    r.api \in {"checks.create", "issues.createComment", "issues.addAssignees", "fetch"}

IsGithubMutation(r) ==
    r.api \in {"checks.create", "issues.createComment", "issues.addAssignees"}

IsDryRunSlackLine(r) ==
    r.api = "console.log" /\ r.what = "Dry run: Sending slack message"

\* The author was found not to be a member: the rule goes on to its calls.
ExtFoundNonMember(i) == MembershipDecided(i) /\ ~extRule[i].member

\* The list and the message were built and the list is not empty.
AssignFound(i) ==
    /\ TrackerSettled(i)
    /\ assignRule[i].assigneeList # <<>>
    /\ assignRule[i].assigneeMessage.lines # <<>>

\* C18: with DRY_RUN 'true', whatever events arrive and however the lookups
\* turn out, no handler and no process-level hook makes a mutating call: no
\* check, no comment, no add-assignees, no POST to a Slack webhook.
C18_DryRunMakesNoMutatingCall ==
    env = "true"
    => /\ \A i \in 1..Len(inbox) :
             /\ Count(titleRule[i].out, IsMutating) = 0
             /\ Count(extRule[i].out, IsMutating) = 0
             /\ Count(assignRule[i].out, IsMutating) = 0
       /\ Count(uncaught, IsMutating) = 0

\* C18 witness: in dry-run an opened event has been fully handled: the title
\* was checked, the author found not to be a member, the assignees found.
C18_Witness ==
    /\ env = "true"
    /\ \E i \in 1..Len(inbox) :
          /\ inbox[i].action = "opened"
          /\ titleRule[i].out # <<>>
          /\ ExtFoundNonMember(i) /\ extRule[i].pc = "done"
          /\ AssignFound(i) /\ assignRule[i].pc = "done"

\* Every Slack message among the effects is a POST outside dry-run and a
\* console line in dry-run.
NotifierAgrees(out) ==
    \A k \in 1..Len(out) :
        /\ out[k].api = "fetch" => env # "true"
        /\ IsDryRunSlackLine(out[k]) => env = "true"

\* C19: DRY_RUN enables dry-run exactly when it is 'true', for every rule and
\* for the notifier alike: where a rule has a mutating call to make (a title
\* to report, a non-member author, assignees found) it makes it iff DRY_RUN
\* is not 'true', and a Slack message is a POST iff DRY_RUN is not 'true' and
\* a console line iff it is.
C19_OnlyTrueEnablesDryRun ==
    \A i \in 1..Len(inbox) :
          /\ (TitleDone(i) /\ TitleTriggers(inbox[i]))
             => (Count(titleRule[i].out, IsCheckCreate) = 1 <=> env # "true")
          /\ ExtFoundNonMember(i)
             => (Count(extRule[i].out, IsGithubMutation) >= 1 <=> env # "true")
          /\ AssignFound(i)
             => (Count(assignRule[i].out, IsAddAssignees) = 1 <=> env # "true")
          /\ NotifierAgrees(titleRule[i].out)
          /\ NotifierAgrees(extRule[i].out)
          /\ NotifierAgrees(assignRule[i].out)

\* C19 witness: with DRY_RUN '1' an opened event got its title check, its
\* welcome comment, its assignees, and an error went to Slack as a POST.
C19_Witness ==
    /\ env = "1"
    /\ \E i \in 1..Len(inbox) :
          /\ inbox[i].action = "opened"
          /\ Count(titleRule[i].out, IsCheckCreate) = 1
          /\ Count(extRule[i].out, IsWelcomeComment) = 1
          /\ Count(assignRule[i].out, IsAddAssignees) = 1
          /\ Count(assignRule[i].out, IsErrorPost) = 1

\* C20: every fault while a rule handles an event, a failed outbound call of
\* the handler included, ends in the handler's own catch block, is reported
\* once through reportWebhookError, and reaches nothing outside the handler.
C20_HandlerCatchesEveryFault ==
    /\ \A i \in 1..Len(inbox) :
          /\ titleRule[i].rejected
             => titleRule[i].caught /\ Count(titleRule[i].out, IsErrorPost) = 1
          /\ extRule[i].rejected
             => extRule[i].caught /\ Count(extRule[i].out, IsErrorPost) = 1
          /\ (extRule[i].caught /\ env # "true")
             => Count(extRule[i].out, IsErrorPost) = 1
          /\ (assignRule[i].caught /\ env # "true")
             => Count(assignRule[i].out, IsErrorPost) = 1
    /\ uncaught = <<>>

\* ========================================= handler independence
\* The step makes the handler fail: its catch block runs, or a call it did
\* not await rejects.
TitleFails(i) == ~titleRule[i].rejected /\ titleRule'[i].rejected

ExtFails(i) ==
    \/ ~extRule[i].caught /\ extRule'[i].caught
    \/ ~extRule[i].rejected /\ extRule'[i].rejected

AssignFails(i) == ~assignRule[i].caught /\ assignRule'[i].caught

\* The dispatch called every handler registered for opened.
OpenedHandlersCalled ==
    \A i \in 1..Len(inbox) :
        inbox[i].action = "opened"
        => /\ titleRule[i].pc = "done"
           /\ titleRule[i].out = registerPrTitleCheckHooks(env, inbox[i])
           /\ extRule[i].pc # "none"
           /\ assignRule[i].pc # "none"

\* A step in which one handler of a delivery fails leaves the other handlers
\* of the delivery where they were, free to go on.
FailureStaysInHandler ==
    \A i \in 1..Len(inbox) :
        /\ TitleFails(i) => extRule'[i] = extRule[i] /\ assignRule'[i] = assignRule[i]
        /\ ExtFails(i) => titleRule'[i] = titleRule[i] /\ assignRule'[i] = assignRule[i]
        /\ AssignFails(i) => titleRule'[i] = titleRule[i] /\ extRule'[i] = extRule[i]

ChannelBySeverity(out) ==
    \A k \in 1..Len(out) :
        out[k].api = "fetch"
        => /\ out[k].color = "#2589CF" <=> out[k].webhook = "SLACK_WEBHOOK_NOTIFY"
           /\ out[k].color \in {"#9A2925", "#DEB109"}
                <=> out[k].webhook = "SLACK_WEBHOOK_DEBUG"

\* C22: a notification goes to the team-notify webhook and never to the debug
\* webhook; a warning or an error goes to the debug webhook and never to the
\* team-notify webhook.
C22_SeveritySelectsChannel ==
    /\ \A i \in 1..Len(inbox) :
          /\ ChannelBySeverity(titleRule[i].out)
          /\ ChannelBySeverity(extRule[i].out)
          /\ ChannelBySeverity(assignRule[i].out)
    /\ ChannelBySeverity(uncaught)

\* C22 witness: one delivery has sent a warning, a notification and an error.
C22_Witness ==
    \E i \in 1..Len(inbox) :
        /\ Count(extRule[i].out, IsWarningPost) = 1
        /\ Count(extRule[i].out, IsNotifyPost) = 1
        /\ Count(assignRule[i].out, IsErrorPost) = 1

\* ========================================= unresolved ticket
NoComponentData(i) == assignRule[i].jira.kind = "noFields"

\* C23 as stated: when the tracker's answer has no component data, the rule
\* sends a warning to the debug channel and ends without an add-assignees
\* call and without a comment.
C23_UnresolvedTicketWarnsAndEnds ==
    \A i \in 1..Len(inbox) :
        NoComponentData(i)
        => /\ Count(assignRule[i].out, IsWarningPost) = 1
           /\ assignRule[i].pc = "done"
           /\ Count(assignRule[i].out, IsAddAssignees) = 0
           /\ Count(assignRule[i].out, IsAssignComment) = 0

\* C23 amended: when the tracker's answer has no component data, the rule
\* ends without an add-assignees call and without a comment; outside dry-run
\* it has sent one warning to the debug channel, and with DRY_RUN 'true' it
\* has printed the warning and sent nothing.
C23_UnresolvedTicketWarnsUnlessDry ==
    \A i \in 1..Len(inbox) :
        NoComponentData(i)
        => /\ env # "true" => Count(assignRule[i].out, IsWarningPost) = 1
           /\ env = "true" => /\ Count(assignRule[i].out, IsWarningPost) = 0
                              /\ Count(assignRule[i].out, IsWarningLine) >= 1
           /\ assignRule[i].pc = "done"
           /\ Count(assignRule[i].out, IsAddAssignees) = 0
           /\ Count(assignRule[i].out, IsAssignComment) = 0

\* C23 witness: outside dry-run a lookup without component data was warned
\* about and the handler returned.
C23_Witness ==
    /\ env # "true"
    /\ \E i \in 1..Len(inbox) :
          /\ NoComponentData(i)
          /\ ~assignRule[i].caught
          /\ assignRule[i].pc = "done"
          /\ Count(assignRule[i].out, IsWarningPost) = 1

\* ========================================= order of the assignment calls
\* Where in out the first call with the test is, 0 when there is none.
FirstIndex(out, Test(_)) ==
    IF \E k \in 1..Len(out) : Test(out[k])
    THEN CHOOSE k \in 1..Len(out) : Test(out[k]) /\ \A j \in 1..(k - 1) : ~Test(out[j])
    ELSE 0

\* A posted comment comes after the add-assignees call.
CommentAfterAssignees ==
    \A i \in 1..Len(inbox) :
        Count(assignRule[i].out, IsAssignComment) >= 1
        => /\ FirstIndex(assignRule[i].out, IsAddAssignees) >= 1
           /\ FirstIndex(assignRule[i].out, IsAddAssignees)
                < FirstIndex(assignRule[i].out, IsAssignComment)

\* The comment is posted by the step in which the awaited add-assignees call
\* settles, and only when it settles well: the step in which it fails posts
\* no comment, and none is posted later.
NoCommentAfterFailedAssignees ==
    \A i \in 1..Len(inbox) :
        /\ Count(assignRule'[i].out, IsAssignComment)
              > Count(assignRule[i].out, IsAssignComment)
           => /\ assignRule[i].pc = "awaitAssignees"
              /\ Count(assignRule[i].out, IsAddAssignees) = 1
              /\ ~assignRule'[i].caught
        /\ (assignRule[i].pc = "awaitAssignees" /\ assignRule'[i].caught)
           => Count(assignRule'[i].out, IsAssignComment) = 0
        /\ (assignRule[i].pc = "done")
           => Count(assignRule'[i].out, IsAssignComment)
                = Count(assignRule[i].out, IsAssignComment)

\* C24: outside dry-run the add-assignees call is issued and has completed
\* before the comment is posted, and a failed add-assignees call is followed
\* by no comment.
C24_AssigneesBeforeComment ==
    []CommentAfterAssignees /\ [][NoCommentAfterFailedAssignees]_vars

\* C24 witness: outside dry-run the assignees were added, then the comment
\* was posted, and the handler returned.
C24_Witness ==
    /\ env # "true"
    /\ \E i \in 1..Len(inbox) :
          /\ assignRule[i].pc = "done" /\ ~assignRule[i].caught
          /\ Len(assignRule[i].out) = 3
          /\ IsJiraGet(assignRule[i].out[1])
          /\ IsAddAssignees(assignRule[i].out[2])
          /\ IsAssignComment(assignRule[i].out[3])

\* ========================================= side effects per event
\* The side effects of a rule: a check, a comment, an add-assignees call, a
\* post to the team channel.
IsSideEffect(r) == IsGithubMutation(r) \/ IsNotifyPost(r)

\* C25 as stated: no rule handler makes more than one of these calls for one
\* event.
C25_AtMostOneSideEffect ==
    \A i \in 1..Len(inbox) :
        /\ Count(titleRule[i].out, IsSideEffect) <= 1
        /\ Count(extRule[i].out, IsSideEffect) <= 1
        /\ Count(assignRule[i].out, IsSideEffect) <= 1

\* C25 amended: for one event the title rule creates at most one check; the
\* external contributor rule makes at most one call on synchronize (the
\* check) and at most three on opened (the comment, the check, the
\* notification, each at most once); the assignment rule makes at most two
\* (add-assignees and the comment, each at most once).
C25_SideEffectsPerRule ==
    \A i \in 1..Len(inbox) :
        /\ Count(titleRule[i].out, IsSideEffect) <= 1
        /\ Count(titleRule[i].out, IsSideEffect) = Count(titleRule[i].out, IsCheckCreate)
        /\ Count(extRule[i].out, IsSideEffect)
             <= (IF inbox[i].action = "opened" THEN 3 ELSE 1)
        /\ Count(extRule[i].out, IsWelcomeComment) <= 1
        /\ Count(extRule[i].out, IsCheckCreate) <= 1
        /\ Count(extRule[i].out, IsNotifyPost) <= 1
        /\ inbox[i].action # "opened"
             => Count(extRule[i].out, IsSideEffect) = Count(extRule[i].out, IsCheckCreate)
        /\ Count(assignRule[i].out, IsSideEffect) <= 2
        /\ Count(assignRule[i].out, IsAddAssignees) <= 1
        /\ Count(assignRule[i].out, IsAssignComment) <= 1
        /\ Count(assignRule[i].out, IsCheckCreate) = 0
        /\ Count(assignRule[i].out, IsNotifyPost) = 0

\* C25 witness: for one opened event the external contributor rule has made
\* three calls and the assignment rule two.
C25_Witness ==
    \E i \in 1..Len(inbox) :
        /\ inbox[i].action = "opened"
        /\ Count(extRule[i].out, IsSideEffect) = 3
        /\ Count(assignRule[i].out, IsSideEffect) = 2

\* ========================================= what a failed rule leaves behind
\* The handler failed: its catch block ran, or a call it did not await
\* rejected.
ExtFailed(i) == extRule[i].caught \/ extRule[i].rejected

\* A call of the handler that was followed by another one had completed:
\* the welcome comment before the check, add-assignees before the comment.
WelcomeCommentPosted(i) ==
    /\ Count(extRule[i].out, IsWelcomeComment) = 1
    /\ Count(extRule[i].out, IsCheckCreate) = 1

AssigneesAdded(i) ==
    /\ Count(assignRule[i].out, IsAddAssignees) = 1
    /\ Count(assignRule[i].out, IsAssignComment) = 1

\* C26: a rule whose handling of an event failed at some step has produced
\* no check, no comment and no assignment for the event, and the failure
\* shows on the debug channel alone.
C26_FailedRuleLeavesNothing ==
    \A i \in 1..Len(inbox) :
        /\ ExtFailed(i)
           => /\ ~WelcomeCommentPosted(i)
              /\ Count(extRule[i].out, IsNotifyPost) = 0
        /\ assignRule[i].caught => ~AssigneesAdded(i)

\* ========================================= un-awaited calls
\* C28: a title or external contributor handler has not returned when its
\* check-creation call settles: the step in which the call fails finds the
\* handler inside its try block.
C28_CheckSettlesBeforeHandlerReturns ==
    [][\A i \in 1..Len(inbox) :
          /\ TitleFails(i) => titleRule[i].pc # "done"
          /\ (~extRule[i].rejected /\ extRule'[i].rejected) => extRule[i].pc # "done"]_vars

\* ========================================= overlapping deliveries
\* Webhook deliveries handled in one run of overlapping opened events.
MaxPairDeliveries == 2

\* The membership query of a member and of a stranger.
PairMembershipResponses ==
    { [settled |-> "resolved", status |-> 204],
      [settled |-> "rejected", status |-> 404] }

PairJiraResponses ==
    { [kind |-> "fields", components |-> <<"Cache and eviction", "Logging">>] }

InitPair ==
    /\ env \in {Undefined, "true"}
    /\ inbox = <<>>
    /\ titleRule = <<>>
    /\ extRule = <<>>
    /\ assignRule = <<>>
    /\ uncaught = <<>>
    /\ banner = dryRunBanner(env)
    /\ notifier = IdleNotifier

\* Opened events of PR 1 (head sha1) and PR 2 (head sha2).
DeliverPairEvent ==
    /\ Len(inbox) < MaxPairDeliveries
    /\ \E number \in PrNumbers :
          Deliver(MkPayload("opened", number, IF number = 1 THEN "sha1" ELSE "sha2",
                            sMain, "wiredtiger", ExtTitle, FALSE),
                  AppRules)

NextPair ==
    \/ DeliverPairEvent
    \/ \E i \in 1..Len(inbox) : ExternalContributorMembershipSettles(i, PairMembershipResponses)
    \/ \E i \in 1..Len(inbox) : ExternalContributorComment(i)
    \/ \E i \in 1..Len(inbox) : AssignDevelopersTrackerSettles(i, PairJiraResponses)
    \/ \E i \in 1..Len(inbox) : AssignDevelopersAssigned(i)
    \/ \E i \in 1..Len(inbox) : AssignDevelopersCommented(i)

SpecPair == InitPair /\ [][NextPair]_vars

\* The three handlers of a delivery.
Handlers(i) == <<titleRule[i], extRule[i], assignRule[i]>>

\* The calls of a delivery carry the PR number and the head commit of its own
\* payload.
OwnArguments(i, out) ==
    \A k \in 1..Len(out) :
        /\ out[k].api \in {"issues.createComment", "issues.addAssignees"}
           => out[k].issue_number = inbox[i].number
        /\ out[k].api = "checks.create" => out[k].head_sha = inbox[i].head_sha

\* Deliveries with the same payload whose own lookups and calls settled alike
\* and that have got equally far have made the same calls with the same
\* arguments, whatever ran in between.
SameInputsSameCalls ==
    \A i, j \in 1..Len(inbox) :
        inbox[i] = inbox[j]
        => /\ titleRule[i].out = titleRule[j].out
           /\ ( /\ extRule[i].pc = extRule[j].pc
                /\ extRule[i].response = extRule[j].response
                /\ extRule[i].caught = extRule[j].caught
                /\ Len(extRule[i].out) = Len(extRule[j].out) )
              => extRule[i].out = extRule[j].out
           /\ ( /\ assignRule[i].pc = assignRule[j].pc
                /\ assignRule[i].jira = assignRule[j].jira
                /\ assignRule[i].smeFile = assignRule[j].smeFile
                /\ assignRule[i].caught = assignRule[j].caught
                /\ Len(assignRule[i].out) = Len(assignRule[j].out) )
              => assignRule[i].out = assignRule[j].out

CallsAreOwn ==
    /\ SameInputsSameCalls
    /\ \A i \in 1..Len(inbox) :
          /\ OwnArguments(i, titleRule[i].out)
          /\ OwnArguments(i, extRule[i].out)
          /\ OwnArguments(i, assignRule[i].out)

\* A step of one delivery's handler writes nothing of another delivery.
OneDeliveryPerStep ==
    \A i, j \in 1..Len(inbox) :
        (i # j /\ Handlers(i)' # Handlers(i)) => Handlers(j)' = Handlers(j)

InitTrace ==
    /\ env = Undefined
    /\ inbox = <<>>
    /\ titleRule = <<>>
    /\ extRule = <<>>
    /\ assignRule = <<>>
    /\ uncaught = <<>>
    /\ banner = dryRunBanner(env)
    /\ notifier \in { [IdleNotifier EXCEPT !.stack_trace = l, !.date = d,
                                           !.before = f, !.files = f] :
                        l \in 0..MaxTraceLength, d \in Dates,
                        f \in SUBSET (1..MaxTraceFiles) }

\* sendSlackMessage runs with the trace.
SendSlackMessageTrace ==
    /\ notifier.phase = "idle"
    /\ \E writeOk \in BOOLEAN :
          LET r == sendSlackMessageTrace(notifier.stack_trace, notifier.date,
                                         notifier.files, writeOk)
          IN notifier' = [notifier EXCEPT
                            !.phase = IF r.threw THEN "threw" ELSE "sent",
                            !.block = r.block, !.fileName = r.fileName,
                            !.files = r.files, !.written = r.written]
    /\ UNCHANGED <<env, inbox, titleRule, extRule, assignRule, uncaught, banner>>

NextTrace == SendSlackMessageTrace

SpecTrace == InitTrace /\ [][NextTrace]_vars

\* ========================================= start-up and notifier claims
\* C29: the start-up announcement agrees with the behaviour: 'Running in dry
\* mode' was printed at start-up iff the mutating calls are suppressed, for
\* every value of DRY_RUN: where a rule has a mutating call to make (a title
\* to report, a non-member author, assignees found) the call is left out iff
\* the banner was printed.
C29_BannerAgreesWithBehaviour ==
    \A i \in 1..Len(inbox) :
          /\ (TitleDone(i) /\ TitleTriggers(inbox[i]))
             => (banner <=> Count(titleRule[i].out, IsCheckCreate) = 0)
          /\ (ExtFoundNonMember(i) /\ extRule[i].pc = "done")
             => (banner <=> Count(extRule[i].out, IsGithubMutation) = 0)
          /\ (AssignFound(i) /\ assignRule[i].pc = "done")
             => (banner <=> Count(assignRule[i].out, IsAddAssignees) = 0)

\* The block text is within what Slack allows in a block.
SlackBlockLimit == 3000

\* The trace was over the limit and the message was built from the notice.
Truncated == notifier.phase = "sent" /\ notifier.stack_trace > TraceLimit

\* C30: for every stack-trace length the text of the stack-trace block that
\* sendSlackMessage builds is at most 3000 characters long, and whenever the
\* trace was truncated the full trace has been written to a trace file whose
\* name did not exist before.
C30_TraceBlockFitsAndFullTraceSaved ==
    notifier.phase = "sent"
    => /\ notifier.block <= SlackBlockLimit
       /\ Truncated
          => /\ notifier.fileName \notin notifier.before
             /\ notifier.fileName \in notifier.files
             /\ notifier.written = notifier.stack_trace
             /\ notifier.files = notifier.before \cup {notifier.fileName}

\* C30 witness: a trace of the greatest length, at the longest date and time,
\* with the unsuffixed file and the -2 file there already, was truncated and
\* saved to the -3 file.
C30_Witness ==
    /\ Truncated
    /\ notifier.stack_trace = MaxTraceLength
    /\ notifier.date.seconds = 59
    /\ notifier.before = {1, 2}
    /\ notifier.fileName = 3
    /\ notifier.block > TraceSlice

====
